---- MODULE Spec2Model ----
(***************************************************************************)
(* Model of the "Managed Cluster Validating Webhooks" suite                *)
(* (package webhooks): the impersonating client helpers asUser /           *)
(* asDedicatedAdmin / asServiceAccount over the shared helper h, the       *)
(* daemonset wait, and the Ordered suite that composes them.               *)
(*                                                                         *)
(* The specifications share the variables:                                 *)
(*   Spec           the suite as ginkgo runs it (sequential, Ordered)      *)
(*   FairSpec       Spec, with the wait's clock and fetches proceeding     *)
(*   SpecFactory    any sequence of helper calls on the shared helper      *)
(*   SpecConcurrent two goroutines calling the helpers on the same h       *)
(***************************************************************************)
EXTENDS Integers, Sequences, FiniteSets, TLC

\* ------------------------------------------------------------- bounds
\* Longest extraGroups argument enumerated for asUser(h, user, groups...).
MaxGroups == 2
\* Largest value enumerated for each daemonset status counter.
MaxCount == 2
\* The wait's timeout counted in poll intervals (wait.For's defaults are a
\* 5 s interval and a 5 min timeout: 60 intervals).
TimeoutTicks == 3

\* ---------------------------------------------------------- identities
AuthGroup == "system:authenticated"
OAuthGroup == "system:authenticated:oauth"
DedicatedAdminUser == "test-user@redhat.com"
DedicatedAdminGroup == "dedicated-admins"
RandomUser == "majora"
\* fmt.Sprintf("system:serviceaccount:%s:dedicated-admin-project", h.CurrentProject())
AdminProjectSA == "system:serviceaccount:proj:dedicated-admin-project"

\* The principals and group names the calls are enumerated over.
Users == {"", RandomUser, DedicatedAdminUser}
ServiceAccounts == {AdminProjectSA, "system:serviceaccount:proj:other"}
GroupNames == {DedicatedAdminGroup, AuthGroup, OAuthGroup}
GroupSeqs == UNION {[1..n -> GroupNames] : n \in 0..MaxGroups}

\* rest.ImpersonationConfig{UserName: user, Groups: groups}
ImpersonationConfig(user, groups) == [UserName |-> user, Groups |-> groups]
NoImpersonation == ImpersonationConfig("", <<>>)

\* The helper after helper.New(): no impersonation, no service account.
NewHelper == [Impersonate |-> NoImpersonation, ServiceAccount |-> ""]

\* h.Impersonate(cfg): the helper's rest config is mutated in place.
Impersonate(hh, cfg) == [hh EXCEPT !.Impersonate = cfg]

\* h.GetConfig(): the helper's rest config, reduced to its Impersonate field.
GetConfig(hh) == hh.Impersonate

\* resources.New(cfg): the client keeps the identity of the config it is
\* built from.
\* Mutant: the client is built from a config without the impersonation.
ResourcesNewAmbient(cfg) == [identity |-> ImpersonationConfig("", <<>>)]

ResourcesNew(cfg) == [identity |-> cfg]
\* No client (a nil *resources.Resources): it carries the identity of no
\* principal, which no request can bear.
NoClient == [identity |-> ImpersonationConfig("none", <<>>)]

\* asUser, lines 158-161: the groups handed to the impersonation config.
\* Mutant: the baseline groups are appended whatever the user.
EffectiveGroupsAlways(user, groups) == groups \o <<AuthGroup, OAuthGroup>>

EffectiveGroups(user, groups) == IF user # "" THEN groups \o <<AuthGroup, OAuthGroup>> ELSE groups

\* asUser up to h.Impersonate(...): the helper after the call.
asUserHelper(hh, user, groups) == Impersonate(hh, ImpersonationConfig(user, EffectiveGroups(user, groups)))

\* asUser: the helper after the call and the client returned.
asUser(hh, user, groups) == [h |-> asUserHelper(hh, user, groups), client |-> ResourcesNew(GetConfig(asUserHelper(hh, user, groups)))]

\* asServiceAccount, lines 152-155: the service account is recorded on the
\* helper and impersonated as a user.
\* Mutant: the service account is recorded but not impersonated.
asServiceAccountNotImpersonated(hh, sa) == asUser([hh EXCEPT !.ServiceAccount = sa], "", <<>>)

asServiceAccount(hh, sa) == asUser([hh EXCEPT !.ServiceAccount = sa], sa, <<>>)

asDedicatedAdmin(hh) == asUser(hh, DedicatedAdminUser, <<DedicatedAdminGroup>>)

NoCall == [fn |-> "none", user |-> "", groups |-> <<>>, ok |-> TRUE]

\* ------------------------------------------------------------ variables
VARIABLES
    h,          \* the shared helper (var h *helper.H)
    client,     \* the client the last sequential helper call returned
    lastCall,   \* SpecFactory: the last helper call and its arguments
    gpc,        \* SpecConcurrent: each goroutine's position
    gcall,      \* SpecConcurrent: the call each goroutine is making
    gclient,    \* SpecConcurrent: the client each goroutine was returned
    gsent,      \* SpecConcurrent: the identity of the request each goroutine issued
    pc,         \* Spec: the suite's position
    itResult,   \* Spec: each It's outcome
    pod,        \* Spec: var pod *v1.Pod of the nested Describe
    reqs,       \* Spec: the get/create/delete requests issued so far
    cluster,    \* Spec: the test pods that exist on the cluster
    ctxDone,    \* Spec: the running node's ctx is cancelled
    calls,      \* Spec: the helper calls the suite has made so far
    wpc,        \* the wait: idle | sleep | fetch | done
    elapsed,    \* the wait: poll intervals slept so far
    polls,      \* the wait: fetches issued so far
    fetched,    \* the wait: what the last fetch returned
    matched,    \* the wait: what the match function said of it
    waitErr,    \* the wait: wait.For's return value
    sawNotFound \* the wait: some fetch returned NotFound

concVars == <<gpc, gcall, gclient, gsent>>
waitVars == <<wpc, elapsed, polls, fetched, matched, waitErr, sawNotFound>>
suiteVars == <<pc, itResult, pod, reqs, cluster, ctxDone, calls>>
vars == <<h, client, lastCall, gpc, gcall, gclient, gsent, pc, itResult, pod, reqs, cluster, ctxDone, calls, wpc, elapsed, polls, fetched, matched, waitErr, sawNotFound>>

Goroutines == {1, 2}
\* A daemonset as a fetch returns it, or the fetch's error; on an error the
\* object keeps the zero status it was built with (line 179).
\* The errors enumerated: NotFound, a transient one ("Error": a connection
\* reset, a server timeout) and one that no retry cures ("Forbidden").
Fetch(e, d, c, r, a) == [err |-> e, desired |-> d, current |-> c, ready |-> r, available |-> a]
NoFetch == Fetch("none", 0, 0, 0, 0)
FetchResults == {Fetch("nil", d, c, r, a) : d \in 0..MaxCount, c \in 0..MaxCount, r \in 0..MaxCount, a \in 0..MaxCount} \cup {Fetch("NotFound", 0, 0, 0, 0), Fetch("Error", 0, 0, 0, 0), Fetch("Forbidden", 0, 0, 0, 0)}

WaitIdle ==
    /\ wpc = "idle"
    /\ elapsed = 0
    /\ polls = 0
    /\ fetched = NoFetch
    /\ matched = FALSE
    /\ waitErr = "none"
    /\ sawNotFound = FALSE

Its == {"exists", "blocked", "allowed"}
NoPod == [name |-> "", namespace |-> ""]
SuiteIdle ==
    /\ pc = "none"
    /\ itResult = [i \in Its |-> "pending"]
    /\ pod = NoPod
    /\ reqs = <<>>
    /\ cluster = {}
    /\ ctxDone = FALSE
    /\ calls = <<>>

ConcIdle ==
    /\ gpc = [g \in Goroutines |-> "idle"]
    /\ gcall = [g \in Goroutines |-> NoCall]
    /\ gclient = [g \in Goroutines |-> NoClient]
    /\ gsent = [g \in Goroutines |-> NoImpersonation]


\* ------------------------------------------- SpecFactory: helper calls
InitFactory ==
    /\ h = NewHelper
    /\ client = NoClient
    /\ lastCall = NoCall
    /\ ConcIdle
    /\ WaitIdle
    /\ SuiteIdle

\* One call of asUser(h, user, groups...); resources.New may fail, and then
\* Expect(err).NotTo(HaveOccurred()) aborts before a client is returned.
CallAsUser ==
    \E user \in Users, groups \in GroupSeqs, ok \in BOOLEAN :
        /\ h' = asUser(h, user, groups).h
        /\ client' = IF ok THEN asUser(h, user, groups).client ELSE NoClient
        /\ lastCall' = [fn |-> "asUser", user |-> user, groups |-> groups, ok |-> ok]
        /\ UNCHANGED <<concVars, waitVars, suiteVars>>

CallAsDedicatedAdmin ==
    \E ok \in BOOLEAN :
        /\ h' = asDedicatedAdmin(h).h
        /\ client' = IF ok THEN asDedicatedAdmin(h).client ELSE NoClient
        /\ lastCall' = [fn |-> "asDedicatedAdmin", user |-> DedicatedAdminUser, groups |-> <<DedicatedAdminGroup>>, ok |-> ok]
        /\ UNCHANGED <<concVars, waitVars, suiteVars>>

CallAsServiceAccount ==
    \E sa \in ServiceAccounts, ok \in BOOLEAN :
        /\ h' = asServiceAccount(h, sa).h
        /\ client' = IF ok THEN asServiceAccount(h, sa).client ELSE NoClient
        /\ lastCall' = [fn |-> "asServiceAccount", user |-> sa, groups |-> <<>>, ok |-> ok]
        /\ UNCHANGED <<concVars, waitVars, suiteVars>>

NextFactory == CallAsUser \/ CallAsDedicatedAdmin \/ CallAsServiceAccount

SpecFactory == InitFactory /\ [][NextFactory]_vars

\* ---------------------------- SpecConcurrent: two goroutines, one helper
\* The calls the goroutines make: the suite's own (asUser(h, ""),
\* asUser(h, "majora"), asDedicatedAdmin(h), asServiceAccount(h, sa)).
ConcCalls == {[fn |-> "asUser", user |-> "", groups |-> <<>>, ok |-> TRUE], [fn |-> "asUser", user |-> RandomUser, groups |-> <<>>, ok |-> TRUE], [fn |-> "asDedicatedAdmin", user |-> DedicatedAdminUser, groups |-> <<DedicatedAdminGroup>>, ok |-> TRUE], [fn |-> "asServiceAccount", user |-> AdminProjectSA, groups |-> <<>>, ok |-> TRUE]}

InitConcurrent ==
    /\ h = NewHelper
    /\ client = NoClient
    /\ lastCall = NoCall
    /\ ConcIdle
    /\ WaitIdle
    /\ SuiteIdle

\* A goroutine enters one of the helpers.
GCall(g) ==
    /\ gpc[g] = "idle"
    /\ \E c \in ConcCalls :
        /\ gcall' = [gcall EXCEPT ![g] = c]
        /\ gpc' = [gpc EXCEPT ![g] = IF c.fn = "asServiceAccount" THEN "setSA" ELSE "impersonate"]
    /\ UNCHANGED <<h, client, lastCall, gclient, gsent, waitVars, suiteVars>>

\* asServiceAccount, line 153: h.ServiceAccount = sa
GSetServiceAccount(g) ==
    /\ gpc[g] = "setSA"
    /\ h' = [h EXCEPT !.ServiceAccount = gcall[g].user]
    /\ gpc' = [gpc EXCEPT ![g] = "impersonate"]
    /\ UNCHANGED <<client, lastCall, gcall, gclient, gsent, waitVars, suiteVars>>

\* asUser, lines 158-166: h.Impersonate(...) writes the shared helper
GImpersonate(g) ==
    /\ gpc[g] = "impersonate"
    /\ h' = asUserHelper(h, gcall[g].user, gcall[g].groups)
    /\ gpc' = [gpc EXCEPT ![g] = "new"]
    /\ UNCHANGED <<client, lastCall, gcall, gclient, gsent, waitVars, suiteVars>>

\* asUser, line 168: resources.New(h.GetConfig()) reads the shared helper
GNew(g) ==
    /\ gpc[g] = "new"
    /\ gclient' = [gclient EXCEPT ![g] = ResourcesNew(GetConfig(h))]
    /\ gpc' = [gpc EXCEPT ![g] = "request"]
    /\ UNCHANGED <<h, client, lastCall, gcall, gsent, waitVars, suiteVars>>

\* The goroutine issues a request through the client it was returned.
GRequest(g) ==
    /\ gpc[g] = "request"
    /\ gsent' = [gsent EXCEPT ![g] = gclient[g].identity]
    /\ gpc' = [gpc EXCEPT ![g] = "done"]
    /\ UNCHANGED <<h, client, lastCall, gcall, gclient, waitVars, suiteVars>>

NextConcurrent == \E g \in Goroutines : GCall(g) \/ GSetServiceAccount(g) \/ GImpersonate(g) \/ GNew(g) \/ GRequest(g)

SpecConcurrent == InitConcurrent /\ [][NextConcurrent]_vars

\* ------------------------------------------------- Spec: the suite
namespaceName == "openshift-validation-webhook"
serviceName == "validation-webhook"
daemonsetName == "validation-webhook"
configMapName == "webhook-cert"
secretName == "webhook-cert"
privilegedNamespace == "openshift-backplane"
unprivilegedNamespace == "openshift-logging"
\* envconf.RandomName("osde2e", 12): the names a run may draw.
PodNames == {"osde2e-a", "osde2e-b"}

\* newTestPod(name): the pod reduced to its name and namespace.
newTestPod(name) == [name |-> name, namespace |-> ""]

withNamespace(p, namespace) == [p EXCEPT !.namespace = namespace]

\* What the remote answers to a get and to a create; a request whose ctx is
\* cancelled returns the context's error.
GetResults == {"nil", "NotFound", "Error"}
CreateResults == {"nil", "Forbidden", "Conflict", "Error"}
Results(done, answers) == IF done THEN {"Canceled"} ELSE answers

\* Expect(err).ShouldNot(HaveOccurred())
\* Mutant: the assertion lets every error through.
ExpectNoErrorLax(err) == TRUE

ExpectNoError(err) == err = "nil"

\* Expect(apierrors.IsForbidden(err)).To(BeTrue())
\* Mutant: any error counts as forbidden.
ExpectForbiddenLax(err) == err # "nil"
\* Mutant: the create's result is not asserted at all.
ExpectForbiddenAny(err) == TRUE

ExpectForbidden(err) == err = "Forbidden"

\* The match function of waitForDaemonSetAvailable, lines 181-186.
\* Mutant: the available counter is not compared.
DaemonSetAvailableNoAvailable(d) == d.current = d.desired /\ d.ready = d.desired

DaemonSetAvailable(d) == d.current = d.desired /\ d.ready = d.desired /\ d.available = d.desired

\* conditions.ResourceMatch(ds, match): the condition's (done, err) for one
\* fetch. A fetch error is not returned: the condition is false, not failed.
\* Mutant: a NotFound fetch fails the condition.
ResourceMatchNotFoundFails(f) == IF f.err = "NotFound" THEN [done |-> FALSE, err |-> "NotFound"] ELSE IF f.err # "nil" THEN [done |-> FALSE, err |-> "nil"] ELSE [done |-> DaemonSetAvailable(f), err |-> "nil"]

ResourceMatch(f) == IF f.err # "nil" THEN [done |-> FALSE, err |-> "nil"] ELSE [done |-> DaemonSetAvailable(f), err |-> "nil"]

\* wait.For(cond) with no option: Immediate is false, so the first fetch
\* follows one interval's sleep.
\* Mutant: wait.WithImmediate().
WaitFirstStepImmediate == "fetch"

WaitFirstStep == "sleep"

\* wait.For: after the tick that brings the elapsed time to e, the poll and
\* the timeout are both due once e reaches the timeout, and either may win.
\* Mutant: the timeout fires one interval early.
WaitAfterTickEarly(e) == IF e + 1 < TimeoutTicks THEN {"fetch"} ELSE {"fetch", "timeout"}

WaitAfterTick(e) == IF e < TimeoutTicks THEN {"fetch"} ELSE {"fetch", "timeout"}

\* wait.For: after a poll whose condition is false, the wait ends with the
\* timeout error once the deadline has passed and sleeps an interval if not.
\* Mutant: the deadline is not looked at after a poll.
WaitAfterFalseForever(e) == "sleep"

WaitAfterFalse(e) == IF e >= TimeoutTicks THEN "timeout" ELSE "sleep"

\* asUser, line 169: Expect(err).NotTo(HaveOccurred()) on resources.New's
\* error; ok says that resources.New returned no error.
\* Mutant: the assertion is missing, the caller goes on with what it got.
ExpectClientLax(ok) == TRUE

ExpectClient(ok) == ok

\* AfterEach, line 84: apierrors.IsNotFound(err)
\* Mutant: every delete error is taken for NotFound.
IsNotFoundAny(err) == TRUE

IsNotFound(err) == err = "NotFound"

\* One helper call of the suite: the It it belongs to, the node making it
\* ("it" or "after"), the helper and principal, the identity it left in the
\* shared helper, whether resources.New succeeded, and how many requests
\* the suite had issued before it.
Call(it, node, fn, user, identity, ok, at) == [it |-> it, node |-> node, fn |-> fn, user |-> user, identity |-> identity, ok |-> ok, at |-> at]

Req(it, op, kind, name, ns, identity, res) == [it |-> it, op |-> op, kind |-> kind, name |-> name, namespace |-> ns, identity |-> identity, res |-> res]

\* The four gets of It("exists and is running"), lines 52-65.
It1Gets == <<[at |-> "it1_getNs", kind |-> "Namespace", name |-> namespaceName, next |-> "it1_getCm"], [at |-> "it1_getCm", kind |-> "ConfigMap", name |-> configMapName, next |-> "it1_getSecret"], [at |-> "it1_getSecret", kind |-> "Secret", name |-> secretName, next |-> "it1_getSvc"], [at |-> "it1_getSvc", kind |-> "Service", name |-> serviceName, next |-> "it1_wait"]>>

Init ==
    /\ h = NewHelper
    /\ client = NoClient
    /\ lastCall = NoCall
    /\ ConcIdle
    /\ WaitIdle
    /\ pc = "it1_client"
    /\ itResult = [i \in Its |-> "pending"]
    /\ pod = NoPod
    /\ reqs = <<>>
    /\ cluster = {}
    /\ ctxDone = FALSE
    /\ calls = <<>>

\* A failed spec of the Ordered container: the specs after it are skipped.
\* "exists" has no AfterEach; the pod specs run theirs first.
FailExists ==
    /\ itResult' = [i \in Its |-> IF i = "exists" THEN "failed" ELSE "skipped"]
    /\ pc' = "end"
    /\ ctxDone' = FALSE

FailPodSpec(it) ==
    /\ itResult' = [itResult EXCEPT ![it] = "failed"]
    /\ pc' = IF it = "blocked" THEN "blocked_after" ELSE "allowed_after"
    /\ ctxDone' = FALSE

\* The running It's ctx is cancelled (spec timeout, suite timeout, interrupt).
CancelCtx ==
    /\ pc \in {"it1_client", "it1_getNs", "it1_getCm", "it1_getSecret", "it1_getSvc", "it1_wait", "blocked_c1", "blocked_c2", "blocked_c3", "allowed_create"}
    /\ ~ctxDone
    /\ ctxDone' = TRUE
    /\ UNCHANGED <<h, client, lastCall, concVars, waitVars, pc, itResult, pod, reqs, cluster, calls>>

\* line 49: client := asUser(h, "")
It1Client ==
    /\ pc = "it1_client"
    /\ h' = asUser(h, "", <<>>).h
    /\ \E ok \in BOOLEAN :
        /\ calls' = Append(calls, Call("exists", "it", "asUser", "", h'.Impersonate, ok, Len(reqs)))
        /\ IF ExpectClient(ok)
           THEN /\ client' = asUser(h, "", <<>>).client
                /\ pc' = "it1_getNs"
                /\ itResult' = [itResult EXCEPT !["exists"] = "running"]
                /\ UNCHANGED ctxDone
           ELSE /\ client' = NoClient
                /\ FailExists
    /\ UNCHANGED <<lastCall, concVars, waitVars, pod, reqs, cluster>>

\* lines 52-65: one get and its Expect
It1Get(i) ==
    /\ pc = It1Gets[i].at
    /\ \E res \in Results(ctxDone, GetResults) :
        /\ reqs' = Append(reqs, Req("exists", "get", It1Gets[i].kind, It1Gets[i].name, namespaceName, client.identity, res))
        /\ IF ExpectNoError(res)
           THEN pc' = It1Gets[i].next /\ UNCHANGED <<itResult, ctxDone>>
           ELSE FailExists
    /\ UNCHANGED <<h, client, lastCall, concVars, waitVars, pod, cluster, calls>>

\* line 68 -> wait.For(...): the wait begins; it is given no ctx
WaitStart ==
    /\ pc = "it1_wait"
    /\ wpc = "idle"
    /\ wpc' = WaitFirstStep
    /\ UNCHANGED <<h, client, lastCall, concVars, suiteVars, elapsed, polls, fetched, matched, waitErr, sawNotFound>>

\* one poll interval passes
WaitTick ==
    /\ wpc = "sleep"
    /\ elapsed' = elapsed + 1
    /\ \E nxt \in WaitAfterTick(elapsed + 1) :
        IF nxt = "fetch"
        THEN wpc' = "fetch" /\ UNCHANGED waitErr
        ELSE wpc' = "done" /\ waitErr' = "Timeout"
    /\ UNCHANGED <<h, client, lastCall, concVars, suiteVars, polls, fetched, matched, sawNotFound>>

\* one poll: the condition fetches the daemonset and applies the match
\* function to it
WaitFetch ==
    /\ wpc = "fetch"
    /\ \E f \in FetchResults :
        /\ fetched' = f
        /\ polls' = polls + 1
        /\ matched' = (f.err = "nil" /\ DaemonSetAvailable(f))
        /\ sawNotFound' = (sawNotFound \/ f.err = "NotFound")
        /\ IF ResourceMatch(f).err # "nil" THEN wpc' = "done" /\ waitErr' = ResourceMatch(f).err
           ELSE IF ResourceMatch(f).done THEN wpc' = "done" /\ waitErr' = "nil"
           ELSE IF WaitAfterFalse(elapsed) = "timeout" THEN wpc' = "done" /\ waitErr' = "Timeout"
           ELSE wpc' = "sleep" /\ UNCHANGED waitErr
    /\ UNCHANGED <<h, client, lastCall, concVars, suiteVars, elapsed>>

\* lines 68-69: the wait has returned; its Expect ends the It
It1Finish ==
    /\ pc = "it1_wait"
    /\ wpc = "done"
    /\ reqs' = Append(reqs, Req("exists", "wait", "DaemonSet", daemonsetName, namespaceName, client.identity, waitErr))
    /\ IF ExpectNoError(waitErr) /\ ~ctxDone
       THEN /\ itResult' = [itResult EXCEPT !["exists"] = "passed"]
            /\ pc' = "blocked_before"
            /\ ctxDone' = FALSE
               ELSE FailExists
    /\ wpc' = "idle"
    /\ elapsed' = 0
    /\ polls' = 0
    /\ fetched' = NoFetch
    /\ matched' = FALSE
    /\ waitErr' = "none"
    /\ sawNotFound' = FALSE
    /\ UNCHANGED <<h, client, lastCall, concVars, pod, cluster, calls>>

\* lines 77-80: BeforeEach
BeforeEach ==
    /\ pc \in {"blocked_before", "allowed_before"}
    /\ \E name \in PodNames : pod' = newTestPod(name)
    /\ pc' = IF pc = "blocked_before" THEN "blocked_c1" ELSE "allowed_create"
    /\ itResult' = [itResult EXCEPT ![IF pc = "blocked_before" THEN "blocked" ELSE "allowed"] = "running"]
    /\ UNCHANGED <<h, client, lastCall, concVars, waitVars, reqs, cluster, ctxDone, calls>>

\* A create through a client: the request, and the pod on the cluster when
\* the remote accepts it (it refuses a pod that is already there).
CreateAs(it, identity, p, res) ==
    /\ res = "nil" => p \notin cluster
    /\ reqs' = Append(reqs, Req(it, "create", "Pod", p.name, p.namespace, identity, res))
    /\ cluster' = IF res = "nil" THEN cluster \cup {p} ELSE cluster

\* lines 91-93: dedicated-admin, privileged namespace
Blocked1 ==
    /\ pc = "blocked_c1"
    /\ pod' = withNamespace(pod, privilegedNamespace)
    /\ h' = asDedicatedAdmin(h).h
    /\ \E ok \in BOOLEAN :
        /\ calls' = Append(calls, Call("blocked", "it", "asDedicatedAdmin", DedicatedAdminUser, h'.Impersonate, ok, Len(reqs)))
        /\ IF ExpectClient(ok)
           THEN \E res \in Results(ctxDone, CreateResults) :
                   /\ CreateAs("blocked", asDedicatedAdmin(h).client.identity, pod', res)
                   /\ IF ExpectForbidden(res)
                      THEN pc' = "blocked_c2" /\ UNCHANGED <<itResult, ctxDone>>
                      ELSE FailPodSpec("blocked")
           ELSE FailPodSpec("blocked") /\ UNCHANGED <<reqs, cluster>>
    /\ UNCHANGED <<client, lastCall, concVars, waitVars>>

\* lines 96-98: client := asUser(h, "majora"), privileged namespace
Blocked2 ==
    /\ pc = "blocked_c2"
    /\ h' = asUser(h, RandomUser, <<>>).h
    /\ \E ok \in BOOLEAN :
        /\ calls' = Append(calls, Call("blocked", "it", "asUser", RandomUser, h'.Impersonate, ok, Len(reqs)))
        /\ IF ExpectClient(ok)
           THEN /\ client' = asUser(h, RandomUser, <<>>).client
                /\ \E res \in Results(ctxDone, CreateResults) :
                   /\ CreateAs("blocked", client'.identity, pod, res)
                   /\ IF ExpectForbidden(res)
                      THEN pc' = "blocked_c3" /\ UNCHANGED <<itResult, ctxDone>>
                      ELSE FailPodSpec("blocked")
           ELSE client' = NoClient /\ FailPodSpec("blocked") /\ UNCHANGED <<reqs, cluster>>
    /\ UNCHANGED <<pod, lastCall, concVars, waitVars>>

\* lines 101-102: the same client, unprivileged namespace
Blocked3 ==
    /\ pc = "blocked_c3"
    /\ pod' = withNamespace(pod, unprivilegedNamespace)
    /\ \E res \in Results(ctxDone, CreateResults) :
        /\ CreateAs("blocked", client.identity, pod', res)
        /\ IF ExpectForbidden(res) /\ ~ctxDone
           THEN /\ itResult' = [itResult EXCEPT !["blocked"] = "passed"]
                /\ pc' = "blocked_after"
                /\ UNCHANGED ctxDone
           ELSE FailPodSpec("blocked")
    /\ UNCHANGED <<h, client, lastCall, concVars, waitVars, calls>>

\* lines 107-109: the admin-project service account, privileged namespace
AllowedCreate ==
    /\ pc = "allowed_create"
    /\ h' = asServiceAccount(h, AdminProjectSA).h
    /\ \E ok \in BOOLEAN :
        /\ calls' = Append(calls, Call("allowed", "it", "asServiceAccount", AdminProjectSA, h'.Impersonate, ok, Len(reqs)))
        /\ IF ExpectClient(ok)
           THEN /\ client' = asServiceAccount(h, AdminProjectSA).client
                /\ pod' = withNamespace(pod, privilegedNamespace)
                /\ \E res \in Results(ctxDone, CreateResults) :
                   /\ CreateAs("allowed", client'.identity, pod', res)
                   /\ IF ExpectNoError(res) /\ ~ctxDone
                      THEN /\ itResult' = [itResult EXCEPT !["allowed"] = "passed"]
                           /\ pc' = "allowed_after"
                           /\ UNCHANGED ctxDone
                      ELSE FailPodSpec("allowed")
           ELSE client' = NoClient /\ FailPodSpec("allowed") /\ UNCHANGED <<pod, reqs, cluster>>
    /\ UNCHANGED <<lastCall, concVars, waitVars>>

\* What the remote answers to the delete of pod p.
DeleteResults(p) == IF p \in cluster THEN {"nil", "Error"} ELSE {"NotFound", "Error"}

\* lines 82-87: AfterEach, with a ctx of its own
AfterEach ==
    /\ pc \in {"blocked_after", "allowed_after"}
    /\ h' = asUser(h, "", <<>>).h
    /\ \E ok \in BOOLEAN, canceled \in BOOLEAN :
        LET it == IF pc = "blocked_after" THEN "blocked" ELSE "allowed"
            failed == [i \in Its |-> IF i = it THEN "failed" ELSE IF i = "allowed" THEN "skipped" ELSE itResult[i]]
            after == IF itResult[it] = "passed" THEN itResult ELSE failed
        IN  /\ calls' = Append(calls, Call(it, "after", "asUser", "", h'.Impersonate, ok, Len(reqs)))
            /\ IF ExpectClient(ok)
               THEN \E res \in Results(canceled, DeleteResults(pod)) :
                       /\ reqs' = Append(reqs, Req(it, "delete", "Pod", pod.name, pod.namespace, asUser(h, "", <<>>).client.identity, res))
                       /\ cluster' = IF res = "nil" THEN cluster \ {pod} ELSE cluster
                       /\ itResult' = IF IsNotFound(res) \/ ExpectNoError(res) THEN after ELSE failed
               ELSE itResult' = failed /\ UNCHANGED <<reqs, cluster>>
    /\ pc' = IF pc = "blocked_after" /\ itResult'["blocked"] = "passed" THEN "allowed_before" ELSE "end"
    /\ ctxDone' = FALSE
    /\ UNCHANGED <<client, lastCall, concVars, waitVars, pod>>

Next == It1Client \/ (\E i \in 1..4 : It1Get(i)) \/ WaitStart \/ WaitTick \/ WaitFetch \/ It1Finish \/ CancelCtx \/ BeforeEach \/ Blocked1 \/ Blocked2 \/ Blocked3 \/ AllowedCreate \/ AfterEach

Spec == Init /\ [][Next]_vars

\* The clock advances and a fetch returns: a wait in progress takes its
\* next step.
FairSpec == Spec /\ WF_vars(WaitTick) /\ WF_vars(WaitFetch)

\* C1: two clients built concurrently from the same helper for different
\* identities never issue a request under the other's principal or groups:
\* every request carries exactly the identity passed to the call that built
\* its client.
C1_RequestCarriesOwnIdentity == \A g \in Goroutines : gpc[g] = "done" => gsent[g] = ImpersonationConfig(gcall[g].user, EffectiveGroups(gcall[g].user, gcall[g].groups))

Occurrences(seq, x) == Cardinality({i \in DOMAIN seq : seq[i] = x})
Range(seq) == {seq[i] : i \in DOMAIN seq}

\* C2: for every non-empty principal and every extraGroups sequence, the
\* groups asUser hands to the impersonation config hold each of the two
\* baseline markers exactly once and are the duplicate-free union
\* extraGroups \cup {system:authenticated, system:authenticated:oauth}.
C2_BaselineGroupsExactlyOnce ==
    (lastCall.fn = "asUser" /\ lastCall.user # "") =>
        /\ Occurrences(h.Impersonate.Groups, AuthGroup) = 1
        /\ Occurrences(h.Impersonate.Groups, OAuthGroup) = 1
        /\ Range(h.Impersonate.Groups) = Range(lastCall.groups) \cup {AuthGroup, OAuthGroup}
        /\ \A x \in Range(h.Impersonate.Groups) : Occurrences(h.Impersonate.Groups, x) = 1

\* C3: after any sequence of earlier helper calls, the client asUser(h, "")
\* returns acts with the ambient credential: no impersonated user, no
\* groups, nothing of an earlier service account.
C3_EmptyPrincipalIsAmbient ==
    (lastCall.fn = "asUser" /\ lastCall.user = "" /\ lastCall.groups = <<>> /\ lastCall.ok) =>
        /\ client.identity.UserName = ""
        /\ client.identity.Groups = <<>>
        /\ (h.ServiceAccount # "") => client.identity.UserName # h.ServiceAccount
C3_Witness == lastCall.fn = "asUser" /\ lastCall.user = "" /\ lastCall.groups = <<>> /\ lastCall.ok /\ h.ServiceAccount = AdminProjectSA /\ client.identity = NoImpersonation

\* The readiness condition as the claims state it.
Ready(f) == f.err = "nil" /\ f.current = f.desired /\ f.ready = f.desired /\ f.available = f.desired
Polling == wpc \in {"sleep", "fetch"}
Succeeded == wpc = "done" /\ waitErr = "nil"
TimedOut == wpc = "done" /\ waitErr = "Timeout"

\* C4: the match function is true exactly when currentScheduled, ready and
\* available all equal desiredScheduled; true when all four are 0, false
\* when any one counter differs from desiredScheduled.
C4_PredicateIsThreeEqualities ==
    (polls > 0 /\ fetched.err = "nil") =>
        /\ matched <=> (fetched.current = fetched.desired /\ fetched.ready = fetched.desired /\ fetched.available = fetched.desired)
        /\ (fetched = Fetch("nil", 0, 0, 0, 0)) => matched
        /\ (fetched.current # fetched.desired \/ fetched.ready # fetched.desired \/ fetched.available # fetched.desired) => ~matched
C4_Witness == polls > 0 /\ fetched = Fetch("nil", 0, 0, 0, 0) /\ matched

C6_Safety ==
    /\ (waitErr = "Timeout") => elapsed >= TimeoutTicks
    /\ elapsed <= TimeoutTicks
    /\ (wpc = "sleep") => elapsed < TimeoutTicks
    /\ (wpc = "done" /\ ~(polls > 0 /\ Ready(fetched))) => waitErr = "Timeout"

\* C6: the wait returns Timeout only once the elapsed time has reached the
\* timeout, it never sleeps past the timeout, it ends in no error but
\* Timeout, and a wait in progress always ends: one whose predicate never
\* becomes true ends in Timeout.
C6_TimeoutOnlyAtDeadline == [](C6_Safety) /\ (Polling ~> (wpc = "done"))
C6_Witness == TimedOut /\ elapsed = TimeoutTicks /\ polls = TimeoutTicks /\ ~sawNotFound

\* C7: a fetch that returns NotFound does not end the wait: the wait polls
\* again (or times out once the timeout has elapsed), and a daemonset that
\* was absent and is then fetched ready yields Success.
C7_NotFoundKeepsPolling ==
    /\ waitErr # "NotFound"
    /\ (polls > 0 /\ fetched.err = "NotFound") => (Polling \/ (TimedOut /\ elapsed >= TimeoutTicks))
    /\ (polls > 0 /\ fetched.err = "NotFound" /\ elapsed < TimeoutTicks) => Polling
    /\ (sawNotFound /\ Ready(fetched)) => Succeeded
C7_Witness == sawNotFound /\ Succeeded /\ elapsed < TimeoutTicks

\* C8: once the ctx of the It is cancelled while the wait is polling, the
\* wait is interrupted: it sleeps no further poll interval and does not run
\* on to its own timeout.
C8_CancelInterruptsWait == [][(ctxDone /\ Polling) => (elapsed' = elapsed /\ waitErr' # "Timeout")]_vars

\* The requests of the existence scenario, in the order issued.
IsExistsReq(r) == r.it = "exists"
ExistsReqs == SelectSeq(reqs, IsExistsReq)
ExistsStep(i, op, kind, name) == (i \in DOMAIN ExistsReqs) => (ExistsReqs[i].op = op /\ ExistsReqs[i].kind = kind /\ ExistsReqs[i].name = name)

\* C9: the existence scenario issues the gets of namespace, configmap,
\* secret and service in that order with the ambient client, then the
\* daemonset wait; a step that returns an error is the last step and fails
\* the scenario; the scenario passes only if all five returned no error.
C9_ExistenceStepsInOrder ==
    /\ Len(ExistsReqs) <= 5
    /\ ExistsStep(1, "get", "Namespace", "openshift-validation-webhook")
    /\ ExistsStep(2, "get", "ConfigMap", "webhook-cert")
    /\ ExistsStep(3, "get", "Secret", "webhook-cert")
    /\ ExistsStep(4, "get", "Service", "validation-webhook")
    /\ ExistsStep(5, "wait", "DaemonSet", "validation-webhook")
    /\ \A i \in DOMAIN ExistsReqs :
        /\ ExistsReqs[i].identity = NoImpersonation
        /\ ExistsReqs[i].namespace = "openshift-validation-webhook"
        /\ (i < Len(ExistsReqs)) => ExistsReqs[i].res = "nil"
        /\ (ExistsReqs[i].res # "nil") => (itResult["exists"] = "failed" /\ pc = "end")
    /\ (wpc # "idle") => (Len(ExistsReqs) = 4 /\ ExistsReqs[4].res = "nil")
    /\ (itResult["exists"] = "passed") => (Len(ExistsReqs) = 5 /\ ExistsReqs[5].res = "nil")
C9_Witness == itResult["exists"] = "passed" /\ pc = "blocked_before" /\ Len(reqs) = 5

\* The creates of the "are blocked" scenario, in the order issued.
IsBlockedCreate(r) == r.it = "blocked" /\ r.op = "create"
BlockedCreates == SelectSeq(reqs, IsBlockedCreate)
BlockedStep(i, ns, user, groups) == (i \in DOMAIN BlockedCreates) => (BlockedCreates[i].namespace = ns /\ BlockedCreates[i].identity = [UserName |-> user, Groups |-> groups])

\* C10: the "are blocked" scenario attempts each of its three creates at
\* most once, in order (privileged namespace as dedicated-admin, privileged
\* namespace as majora, unprivileged namespace as majora); an attempt that
\* does not return Forbidden is the last and fails the scenario; the
\* scenario passes only if all three returned Forbidden.
C10_BlockedNeedsThreeForbidden ==
    /\ Len(BlockedCreates) <= 3
    /\ BlockedStep(1, "openshift-backplane", "test-user@redhat.com", <<"dedicated-admins", "system:authenticated", "system:authenticated:oauth">>)
    /\ BlockedStep(2, "openshift-backplane", "majora", <<"system:authenticated", "system:authenticated:oauth">>)
    /\ BlockedStep(3, "openshift-logging", "majora", <<"system:authenticated", "system:authenticated:oauth">>)
    /\ \A i \in DOMAIN BlockedCreates :
        /\ BlockedCreates[i].name = BlockedCreates[1].name
        /\ (i < Len(BlockedCreates)) => BlockedCreates[i].res = "Forbidden"
        /\ (BlockedCreates[i].res # "Forbidden") => itResult["blocked"] = "failed"
    /\ (itResult["blocked"] = "passed") => (Len(BlockedCreates) = 3 /\ BlockedCreates[3].res = "Forbidden")
C10_Witness == itResult["blocked"] = "passed" /\ pc = "blocked_after" /\ Len(BlockedCreates) = 3

\* The pod scenarios: their creates and cleanup deletes in the request log,
\* and the helper calls their nodes made.
PodIts == {"blocked", "allowed"}
IsCreateOf(it, r) == r.it = it /\ r.op = "create"
IsDeleteOf(it, r) == r.it = it /\ r.op = "delete"
Creates(it) == SelectSeq(reqs, LAMBDA r : IsCreateOf(it, r))
Deletes(it) == SelectSeq(reqs, LAMBDA r : IsDeleteOf(it, r))
\* The scenario ran and its AfterEach has returned.
ScenarioOver(it) == itResult[it] \in {"passed", "failed"} /\ (IF it = "blocked" THEN pc \in {"allowed_before", "allowed_create", "allowed_after", "end"} ELSE pc = "end")
\* The cleanup's own asUser(h, "") could not build its client.
CleanupNotBuilt(it) == \E k \in DOMAIN calls : calls[k].it = it /\ calls[k].node = "after" /\ ~calls[k].ok
\* Every create of the scenario was attempted and answered as its It expects.
CreatesAsExpected(it) == IF it = "blocked" THEN Len(Creates(it)) = 3 /\ (\A i \in 1..3 : Creates(it)[i].res = "Forbidden") ELSE Len(Creates(it)) = 1 /\ Creates(it)[1].res = "nil"
\* What the cleanup makes of the delete's result.
C11_DeleteOutcome(it) ==
    \A i \in DOMAIN Deletes(it) :
        /\ Deletes(it)[i].kind = "Pod"
        /\ \A j \in DOMAIN Creates(it) : Creates(it)[j].name = Deletes(it)[i].name
        /\ (Deletes(it)[i].res \notin {"nil", "NotFound"}) => itResult[it] = "failed"
        /\ (Deletes(it)[i].res \in {"nil", "NotFound"} /\ CreatesAsExpected(it)) => itResult[it] = "passed"

\* C11 as stated: after every authorization scenario, whatever its creates
\* returned, exactly one cleanup delete of the test pod has been attempted;
\* NotFound is ignored, nil passes, any other delete error fails the test.
C11_OneDeleteAfterEveryScenario ==
    \A it \in PodIts :
        /\ ScenarioOver(it) => Len(Deletes(it)) = 1
        /\ C11_DeleteOutcome(it)

\* C11, amended: after every authorization scenario that ran, whatever its
\* creates returned, at most one cleanup delete of the test pod is attempted,
\* and only by the cleanup: exactly one when the cleanup's asUser(h, "")
\* built its client, none (and the scenario fails) when resources.New failed
\* there; a NotFound result is ignored, a nil result passes, any other
\* delete error fails the test.
C11_OneDeleteWhenCleanupClientBuilt ==
    \A it \in PodIts :
        /\ Len(Deletes(it)) <= 1
        /\ (~ScenarioOver(it)) => Len(Deletes(it)) = 0
        /\ (ScenarioOver(it) /\ ~CleanupNotBuilt(it)) => Len(Deletes(it)) = 1
        /\ (ScenarioOver(it) /\ CleanupNotBuilt(it)) => (Len(Deletes(it)) = 0 /\ itResult[it] = "failed")
        /\ C11_DeleteOutcome(it)
C11_Witness == ScenarioOver("blocked") /\ CreatesAsExpected("blocked") /\ Len(Deletes("blocked")) = 1 /\ Deletes("blocked")[1].res = "NotFound" /\ itResult["blocked"] = "passed"

\* The identity asServiceAccount gives the admin-project service account.
AdminProjectIdentity == [UserName |-> "system:serviceaccount:proj:dedicated-admin-project", Groups |-> <<"system:authenticated", "system:authenticated:oauth">>]
AllowedPassed == ScenarioOver("allowed") /\ itResult["allowed"] = "passed"

\* C12 as stated: in "are allowed" the pod create under the admin-project
\* service-account identity in the privileged namespace succeeds, and the
\* delete that follows is issued by that same identity and ends in success
\* or NotFound, never in another error.
C12_DeleteBySameIdentity ==
    AllowedPassed =>
        /\ Len(Creates("allowed")) = 1
        /\ Creates("allowed")[1].identity = AdminProjectIdentity
        /\ Creates("allowed")[1].namespace = privilegedNamespace
        /\ Creates("allowed")[1].res = "nil"
        /\ Len(Deletes("allowed")) = 1
        /\ Deletes("allowed")[1].identity = Creates("allowed")[1].identity
        /\ Deletes("allowed")[1].res \in {"nil", "NotFound"}

\* C12, amended: "are allowed" issues one pod create, under the
\* admin-project service-account identity in the privileged namespace, and
\* passes only if it succeeds; the cleanup delete that follows targets the
\* same pod but is issued with the ambient credential of asUser(h, ""), not
\* with the service-account identity; the scenario stays passed only if
\* that delete ends in success or NotFound.
C12_DeleteByAmbientIdentity ==
    /\ Len(Creates("allowed")) <= 1
    /\ \A i \in DOMAIN Creates("allowed") :
        /\ Creates("allowed")[i].identity = AdminProjectIdentity
        /\ Creates("allowed")[i].namespace = privilegedNamespace
        /\ (Creates("allowed")[i].res # "nil") => itResult["allowed"] = "failed"
    /\ \A i \in DOMAIN Deletes("allowed") :
        /\ reqs[Len(reqs)] = Deletes("allowed")[i]
        /\ Deletes("allowed")[i].identity = [UserName |-> "", Groups |-> <<>>]
        /\ Deletes("allowed")[i].identity # AdminProjectIdentity
        /\ \A j \in DOMAIN Creates("allowed") :
            /\ Creates("allowed")[j].name = Deletes("allowed")[i].name
            /\ Creates("allowed")[j].namespace = Deletes("allowed")[i].namespace
    /\ AllowedPassed =>
        /\ Len(Creates("allowed")) = 1
        /\ Creates("allowed")[1].res = "nil"
        /\ Len(Deletes("allowed")) = 1
        /\ Deletes("allowed")[1].res \in {"nil", "NotFound"}
C12_Witness == AllowedPassed /\ Creates("allowed")[1].res = "nil" /\ Creates("allowed")[1].identity.UserName = AdminProjectSA /\ Deletes("allowed")[1].res = "nil" /\ Deletes("allowed")[1].identity = NoImpersonation /\ cluster = {}

\* C13: a fetch error other than NotFound is classified: after a transient
\* one the wait goes on to another poll (or runs into its timeout), after
\* any other one the wait is over at once with that fatal error, and no
\* further fetch is made.
C13_FatalFetchErrorEndsWait ==
    /\ (polls > 0 /\ fetched.err = "Error") => (Polling \/ TimedOut)
    /\ (polls > 0 /\ fetched.err = "Forbidden") => (wpc = "done" /\ waitErr \notin {"nil", "Timeout"})

\* The wait has an outcome exactly when it is over, and it never fetches
\* more often than the timeout has poll intervals.
C14_OneOutcome ==
    /\ (wpc = "done") <=> (waitErr # "none")
    /\ (wpc = "done") => (Succeeded \/ TimedOut)
    /\ polls <= TimeoutTicks
\* A wait that is over does nothing more: it stays as it is until the
\* caller takes its result, which is the outcome it ended with, and the
\* caller does not wait again.
C14_Stable ==
    /\ (wpc = "done") =>
        \/ waitVars' = waitVars
        \/ (wpc' = "idle" /\ pc' # "it1_wait" /\ reqs' = Append(reqs, Req("exists", "wait", "DaemonSet", daemonsetName, namespaceName, client.identity, waitErr)))
    /\ (wpc = "idle" /\ pc # "it1_wait") => wpc' = "idle"

\* C14: with the clock and the fetches proceeding, a wait in progress
\* reaches a terminal outcome whatever its fetches return: one outcome,
\* after at most as many fetches as the timeout has intervals; once it is
\* reached the wait neither fetches nor changes state again.
C14_WaitTerminates == [](C14_OneOutcome) /\ [][C14_Stable]_vars /\ (Polling ~> (wpc = "done"))
C14_Witness == TimedOut /\ polls = TimeoutTicks /\ fetched.err = "Forbidden" /\ sawNotFound

\* The node a request was issued by: the cleanup issues the deletes.
NodeOf(r) == IF r.op = "delete" THEN "after" ELSE "it"
\* The helper calls whose resources.New failed.
FailedCalls == {k \in DOMAIN calls : ~calls[k].ok}

\* C15: when resources.New fails inside asUser, the failure is a fatal
\* assertion at once: the node makes no second attempt and no further helper
\* call, it issues no request after the failure, no later request bears
\* the identity the call was made for, no client comes back from the call,
\* and the node's It has failed.
C15_FailedConstructionIsFatal ==
    \A k \in FailedCalls :
        /\ \A j \in DOMAIN calls : (j > k) => ~(calls[j].it = calls[k].it /\ calls[j].node = calls[k].node)
        /\ \A i \in DOMAIN reqs : (i > calls[k].at) => ~(reqs[i].it = calls[k].it /\ NodeOf(reqs[i]) = calls[k].node)
        /\ \A i \in DOMAIN reqs : (i > calls[k].at /\ calls[k].user # "") => reqs[i].identity # calls[k].identity
        /\ (k = Len(calls) /\ calls[k].fn # "asDedicatedAdmin" /\ calls[k].node = "it") => client = NoClient
        /\ itResult[calls[k].it] = "failed"
C15_Witness == \E k \in FailedCalls : calls[k].it = "blocked" /\ calls[k].fn = "asUser" /\ calls[k].user = "majora" /\ calls[k].node = "it" /\ Len(Creates("blocked")) = 1 /\ pc = "end" /\ Len(Deletes("blocked")) = 1

\* The pod scenario whose cleanup is about to run.
AtCleanup(it) == pc = (IF it = "blocked" THEN "blocked_after" ELSE "allowed_after")
SucceededCreates(it) == {i \in DOMAIN Creates(it) : Creates(it)[i].res = "nil"}

\* C16: when the cleanup of a pod scenario runs, the pod variable has the
\* namespace of the scenario's most recent create attempt; at most one
\* create of a scenario succeeds, and it is the scenario's last attempt; so
\* the cleanup delete targets the one pod the scenario can have created
\* (it is answered NotFound only if the scenario created none), and no
\* created pod is on the cluster under another namespace when it runs.
C16_CleanupTargetsTheCreatedPod ==
    \A it \in PodIts :
        /\ Cardinality(SucceededCreates(it)) <= 1
        /\ \A i \in SucceededCreates(it) : i = Len(Creates(it))
        /\ (AtCleanup(it) /\ Len(Creates(it)) > 0) =>
            /\ pod.namespace = Creates(it)[Len(Creates(it))].namespace
            /\ pod.name = Creates(it)[Len(Creates(it))].name
        /\ AtCleanup(it) => cluster \subseteq {pod}
        /\ \A d \in DOMAIN Deletes(it), i \in SucceededCreates(it) :
            /\ Deletes(it)[d].name = Creates(it)[i].name
            /\ Deletes(it)[d].namespace = Creates(it)[i].namespace
        /\ \A d \in DOMAIN Deletes(it) : (Deletes(it)[d].res = "NotFound") => SucceededCreates(it) = {}
C16_Witness == AtCleanup("blocked") /\ Len(Creates("blocked")) = 3 /\ Creates("blocked")[3].res = "nil" /\ pod.namespace = "openshift-logging" /\ cluster = {pod}

\* The helper call that built the client request i went through: the last
\* call made before the request was issued.
CallsBefore(i) == {k \in DOMAIN calls : calls[k].at < i}
BuiltBy(i) == CHOOSE k \in CallsBefore(i) : \A j \in CallsBefore(i) : j <= k
\* The principal a request of the suite is meant to act as.
PrincipalOf(i) == IF reqs[i].op = "create" /\ reqs[i].it = "allowed" THEN AdminProjectSA ELSE IF reqs[i].op = "create" /\ Cardinality({j \in 1..i : IsBlockedCreate(reqs[j])}) = 1 THEN DedicatedAdminUser ELSE IF reqs[i].op = "create" THEN RandomUser ELSE ""

\* C17: in the suite as ginkgo runs it, the last helper call before each
\* request is the call that built the request's client, for the request's
\* own It and principal, and it succeeded; the identity that call left in
\* the shared helper is the one the request bears, and the helper holds the
\* identity of the last call at every moment (the two creates of majora go
\* through one client, with no helper call between them).
C17_HelperMatchesRequestIdentity ==
    /\ (calls # <<>>) => h.Impersonate = calls[Len(calls)].identity
    /\ \A i \in DOMAIN reqs :
        /\ CallsBefore(i) # {}
        /\ calls[BuiltBy(i)].ok
        /\ calls[BuiltBy(i)].it = reqs[i].it
        /\ calls[BuiltBy(i)].node = NodeOf(reqs[i])
        /\ calls[BuiltBy(i)].user = PrincipalOf(i)
        /\ calls[BuiltBy(i)].identity = reqs[i].identity
        /\ reqs[i].identity.UserName = PrincipalOf(i)
    /\ (Len(BlockedCreates) = 3) => (\E k \in DOMAIN calls : calls[k].user = RandomUser /\ calls[k].at = Len(ExistsReqs) + 1 /\ BuiltBy(Len(ExistsReqs) + 2) = k /\ BuiltBy(Len(ExistsReqs) + 3) = k)
C17_Witness == Len(BlockedCreates) = 3 /\ pc = "blocked_after" /\ h.Impersonate.UserName = RandomUser /\ reqs[Len(reqs)].identity = h.Impersonate /\ reqs[Len(reqs) - 1].identity = h.Impersonate

====
